---- MODULE Spec2Model ----
(***************************************************************************)
(* Model of sandbox/parser.py: the repository-rename pass.                 *)
(*   write_in_file  reads a file, applies four re.sub rules in order and   *)
(*                  writes the file back (and prints) only when changed.   *)
(*   parse_repo     walks the tree under ".", skips the excluded path and  *)
(*                  the unrecognised extensions, and calls write_in_file.  *)
(* Texts are sequences of one-character strings; the regular expressions   *)
(* are sequences of pattern tokens that MatchFrom interprets the way       *)
(* Python's re module does for the constructs the program uses.            *)
(***************************************************************************)
EXTENDS Integers, Sequences, FiniteSets, TLC

VARIABLES
    tdisk,      \* SpecText: the content of the one file on disk
    torig,      \* SpecText: the content the file had before the first call
    tcalls,     \* SpecText: one record per finished write_in_file call
    disk,       \* Spec: inode -> content
    disk0,      \* Spec: inode -> content before the run
    linkTo,     \* Spec: the inode the entry link.txt refers to
    unreadable, \* Spec: the directories that cannot be listed
    pc,         \* Spec: "walking", "done" or "aborted"
    files,      \* Spec: entries of the current directory not yet iterated
    stack,      \* Spec: directories os.walk still has to yield
    log         \* Spec: one record per write_in_file call, in call order

varsText == <<tdisk, torig, tcalls>>
varsWalk == <<disk, disk0, linkTo, unreadable, pc, files, stack, log>>
vars == <<tdisk, torig, tcalls, disk, disk0, linkTo, unreadable, pc, files, stack, log>>

----------------------------------------------------------------------------
(* Bounds *)

\* longest input text of SpecText, in fragments
MaxFrags == 3
\* how many times SpecText calls write_in_file on the same file
MaxRuns == 2

----------------------------------------------------------------------------
(* Program constants, parser.py lines 5-18 *)

URL_FROM == <<"h", "t", "t", "p", "s", ":", "/", "/", "g", "i", "t", "h", "u", "b", ".", "c", "o", "m", "/", "u", "t", "a", "-", "l", "u", "g", "-", "n", "u", "t", "s", "/", "L", "n", "O", "S">>

URL_TO == <<"h", "t", "t", "p", "s", ":", "/", "/", "g", "i", "t", "h", "u", "b", ".", "c", "o", "m", "/", "r", "c", "g", "h", "p", "g", "e", "/", "l", "n", "o", "s">>

\* r"\bcd\s+LnOS\b" as pattern tokens
CD_PATTERN == <<"\\b", "c", "d", "\\s+", "L", "n", "O", "S", "\\b">>

CD_REPLACEMENT == <<"c", "d", " ", "l", "n", "o", "s">>

\* mutant: the name pattern without its word boundaries
LnosAnywherePattern == <<"L", "n", "O", "S">>

\* r"\bLnOS\b"
LNOS_WORD_PATTERN == <<"\\b", "L", "n", "O", "S", "\\b">>

LNOS_WORD_REPLACEMENT == <<"l", "n", "o", "s">>

FILE_EXTS == {".md", ".sh", ".txt", ".yml", ".yaml"}

EXCLUDE_FILES == {<<".github", "/", "workflows", "/", "ci-main", ".yml">>}

\* URL_FROM + r"\.git": the pattern of the first rule (line 25)
UrlGitPattern == URL_FROM \o <<"\\.", "g", "i", "t">>

\* mutant: the replacement of the first rule without its ".git"
UrlGitReplacementNoSuffix == URL_TO

\* URL_TO + ".git": the replacement of the first rule (line 25)
UrlGitReplacement == URL_TO \o <<".", "g", "i", "t">>

----------------------------------------------------------------------------
(* Python's re: the constructs the four patterns use *)

\* \s of a str pattern (the ASCII part of it)
WhiteSpace == {" ", "\t", "\n", "\r", "\f"}

\* \w of a str pattern (the ASCII part of it)
WordChars ==
    {"a", "b", "c", "d", "e", "f", "g", "h", "i", "j", "k", "l", "m",
     "n", "o", "p", "q", "r", "s", "t", "u", "v", "w", "x", "y", "z",
     "A", "B", "C", "D", "E", "F", "G", "H", "I", "J", "K", "L", "M",
     "N", "O", "P", "Q", "R", "S", "T", "U", "V", "W", "X", "Y", "Z",
     "0", "1", "2", "3", "4", "5", "6", "7", "8", "9", "_"}

\* \b at index i: between t[i-1] and t[i], exactly one is a word character
AtBoundary(t, i) ==
    LET before == i > 1 /\ t[i - 1] \in WordChars
        after == i <= Len(t) /\ t[i] \in WordChars
    IN before # after

RECURSIVE SpaceRun(_, _)
\* the number of whitespace characters of t from index i on
SpaceRun(t, i) ==
    IF i <= Len(t) /\ t[i] \in WhiteSpace THEN 1 + SpaceRun(t, i + 1) ELSE 0

RECURSIVE MatchFrom(_, _, _, _)
RECURSIVE MatchSpaces(_, _, _, _, _)

\* The index after the match of pat[k..] that starts at t[i], 0 when there is
\* none. "." is the wildcard (any character but a newline), "\\." a literal dot.
MatchFrom(pat, k, t, i) ==
    IF k > Len(pat) THEN i
    ELSE LET a == pat[k] IN
         CASE a = "\\b" -> IF AtBoundary(t, i) THEN MatchFrom(pat, k + 1, t, i) ELSE 0
           [] a = "\\s+" -> MatchSpaces(pat, k, t, i, SpaceRun(t, i))
           [] a = "." -> IF i <= Len(t) /\ t[i] # "\n"
                         THEN MatchFrom(pat, k + 1, t, i + 1) ELSE 0
           [] a = "\\." -> IF i <= Len(t) /\ t[i] = "."
                           THEN MatchFrom(pat, k + 1, t, i + 1) ELSE 0
           [] OTHER -> IF i <= Len(t) /\ t[i] = a
                       THEN MatchFrom(pat, k + 1, t, i + 1) ELSE 0

\* \s+ is greedy: the longest run first, then shorter ones (backtracking)
MatchSpaces(pat, k, t, i, n) ==
    IF n = 0 THEN 0
    ELSE LET e == MatchFrom(pat, k + 1, t, i + n) IN
         IF e # 0 THEN e ELSE MatchSpaces(pat, k, t, i, n - 1)

\* the leftmost index from i on at which pat matches in t, 0 when it matches
\* nowhere (none of the patterns matches the empty string)
FirstMatch(pat, t, i) ==
    LET starts == {j \in i..Len(t) : MatchFrom(pat, 1, t, j) > j}
    IN IF starts = {} THEN 0 ELSE CHOOSE j \in starts : \A k \in starts : j <= k

RECURSIVE SubFrom(_, _, _, _)
\* re.sub from index i: leftmost non-overlapping matches, left to right
SubFrom(pat, repl, t, i) ==
    LET j == FirstMatch(pat, t, i) IN
    IF j = 0 THEN SubSeq(t, i, Len(t))
    ELSE SubSeq(t, i, j - 1) \o repl \o SubFrom(pat, repl, t, MatchFrom(pat, 1, t, j))

\* mutant: re.sub(pat, repl, t, count=1), only the leftmost match replaced
SubFirst(pat, repl, t) ==
    LET j == FirstMatch(pat, t, 1) IN
    IF j = 0 THEN t
    ELSE SubSeq(t, 1, j - 1) \o repl \o SubSeq(t, MatchFrom(pat, 1, t, j), Len(t))

\* re.sub(pat, repl, t)
Sub(pat, repl, t) == SubFrom(pat, repl, t, 1)

----------------------------------------------------------------------------
(* write_in_file, lines 24-30: the four rules in their fixed order *)

\* line 25
Rule1(content) == Sub(UrlGitPattern, UrlGitReplacement, content)

\* mutant: the bare-URL rule replacing only its first match
Rule2Once(content) == SubFirst(URL_FROM, URL_TO, content)

\* line 26
Rule2(content) == Sub(URL_FROM, URL_TO, content)

\* mutant: the "cd" rule left out
Rule3Missing(content) == content

\* line 27
Rule3(content) == Sub(CD_PATTERN, CD_REPLACEMENT, content)

\* line 28
Rule4(content) == Sub(LNOS_WORD_PATTERN, LNOS_WORD_REPLACEMENT, content)

Chain(content) == Rule4(Rule3(Rule2(Rule1(content))))

\* mutant: the file written whether or not the text changed
NeedsWriteAlways(original, content) == TRUE

\* line 30: content != original
NeedsWrite(original, content) == content # original

----------------------------------------------------------------------------
(* SpecText: write_in_file called MaxRuns times on one file whose text is   *)
(* any concatenation of at most MaxFrags fragments                         *)

Fragments ==
    { URL_FROM,
      [URL_FROM EXCEPT ![15] = "X"],
      [URL_FROM EXCEPT ![15] = "\n"],
      <<".", "g", "i", "t">>,
      <<"c", "d">>,
      <<" ">>,
      <<"\t", "\n">>,
      <<"L", "n", "O", "S">>,
      <<"M", "y", "L", "n", "O", "S", "F", "o", "r", "k">>,
      <<"x">>,
      <<"/">> }

RECURSIVE TextsOf(_)
TextsOf(n) ==
    IF n = 0 THEN {<<>>}
    ELSE LET shorter == TextsOf(n - 1) IN
         shorter \cup {t \o f : t \in shorter, f \in Fragments}

Texts == TextsOf(MaxFrags)

\* the walk's variables while SpecText runs
WalkIdle ==
    /\ disk = <<>>
    /\ disk0 = <<>>
    /\ linkTo = 0
    /\ unreadable = {}
    /\ pc = "idle"
    /\ files = {}
    /\ stack = <<>>
    /\ log = <<>>

InitText ==
    /\ torig \in Texts
    /\ tdisk = torig
    /\ tcalls = <<>>
    /\ WalkIdle

\* write_in_file on the file: read, substitute, write and print when changed
WriteInFileText ==
    /\ pc = "idle"
    /\ Len(tcalls) < MaxRuns
    /\ LET original == tdisk
           content == Chain(original)
       IN IF NeedsWrite(original, content)
          THEN /\ tdisk' = content
               /\ tcalls' = Append(tcalls, [wrote |-> TRUE, printed |-> TRUE])
          ELSE /\ tdisk' = tdisk
               /\ tcalls' = Append(tcalls, [wrote |-> FALSE, printed |-> FALSE])
    /\ UNCHANGED <<torig, varsWalk>>

NextText == WriteInFileText

SpecText == InitText /\ [][NextText]_vars

----------------------------------------------------------------------------
(* Spec: parse_repo over a tree. A path is a sequence of tokens: directory *)
(* and file name parts, "/" and "\\" (a backslash, which a POSIX file name *)
(* may hold). An entry is a name in a directory; two entries may refer to  *)
(* the same file (a hard link, or a symbolic link to a file, which os.walk *)
(* lists among the files of its directory).                                *)

RootDir == <<>>
DocsDir == <<"docs">>
GithubDir == <<".github">>
WorkflowsDir == <<".github", "workflows">>

Dirs == {RootDir, DocsDir, GithubDir, WorkflowsDir}

Readme == [dir |-> RootDir, name |-> <<"README", ".md">>]
Setup == [dir |-> RootDir, name |-> <<"setup", ".py">>]
Link == [dir |-> RootDir, name |-> <<"link", ".txt">>]
Backslash ==
    [dir |-> RootDir,
     name |-> <<".github", "\\", "workflows", "\\", "ci-main", ".yml">>]
Guide == [dir |-> DocsDir, name |-> <<"guide", ".yaml">>]
CiMain == [dir |-> WorkflowsDir, name |-> <<"ci-main", ".yml">>]

Tree == {Readme, Setup, Link, Backslash, Guide, CiMain}

InoReadme == "ino-readme"
InoSetup == "ino-setup"
InoLink == "ino-link"
InoBackslash == "ino-backslash"
InoGuide == "ino-guide"
InoCiMain == "ino-ci-main"

Inodes == {InoReadme, InoSetup, InoLink, InoBackslash, InoGuide, InoCiMain}

\* what link.txt may be: a file of its own, or another name of one of these
LinkTargets == {InoLink, InoReadme, InoSetup, InoCiMain}

\* the file an entry refers to (open() follows links)
InodeOf(e) ==
    CASE e = Readme -> InoReadme
      [] e = Setup -> InoSetup
      [] e = Link -> linkTo
      [] e = Backslash -> InoBackslash
      [] e = Guide -> InoGuide
      [] e = CiMain -> InoCiMain

\* a text no rule matches, and one that every rule matches
Clean == <<"l", "n", "o", "s">>
Dirty == <<"c", "d", " ", "L", "n", "O", "S", "\n">> \o URL_FROM \o <<".", "g", "i", "t">>

InitTexts == {Clean, Dirty}

\* every text a call of the walk can read
FileTexts == InitTexts \cup {Chain(t) : t \in InitTexts}

\* lines 24-28 on the texts of the walk, computed once
ChainOf == [t \in FileTexts |-> Chain(t)]

\* what a write that fails after open() truncated the file can leave behind
PartialWrites(content) == {<<>>, SubSeq(content, 1, Len(content) - 1)}

RECURSIVE WalkRoot(_)
\* the `root` os.walk(".") yields for a directory: "." joined with its parts
WalkRoot(d) ==
    IF d = <<>> THEN <<".">>
    ELSE WalkRoot(SubSeq(d, 1, Len(d) - 1)) \o <<"/", d[Len(d)]>>

\* os.path.join(root, file), line 38
Join(root, file) == root \o <<"/">> \o file

\* os.path.relpath(filepath), line 39: relative to the working directory "."
RelPath(filepath) ==
    IF Len(filepath) >= 2 /\ filepath[1] = "." /\ filepath[2] = "/"
    THEN SubSeq(filepath, 3, Len(filepath))
    ELSE filepath

\* .replace("\\", "/"), line 39
ReplaceBackslash(path) ==
    [i \in 1..Len(path) |-> IF path[i] = "\\" THEN "/" ELSE path[i]]

FilePath(e) == Join(WalkRoot(e.dir), e.name)

\* line 40: relpath in EXCLUDE_FILES
Excluded(e) == ReplaceBackslash(RelPath(FilePath(e))) \in EXCLUDE_FILES

\* line 42: any(file.endswith(ext) for ext in FILE_EXTS)
HasExt(e) == \E ext \in FILE_EXTS : Len(e.name) >= 1 /\ e.name[Len(e.name)] = ext

\* mutant: the exception caught and the walk going on
AfterRaiseCaught == "walking"

\* the value of pc once an exception has left write_in_file: parse_repo has
\* no try, so the exception ends the run
AfterRaise == "aborted"

FilesIn(d) == {e \in Tree : e.dir = d}

SubDirs(d) == {c \in Dirs : Len(c) = Len(d) + 1 /\ SubSeq(c, 1, Len(d)) = d}

\* the orders in which scandir can list a set of directories
Orders(S) ==
    {q \in [1..Cardinality(S) -> S] : \A x \in S : \E i \in 1..Cardinality(S) : q[i] = x}

TextIdle ==
    /\ tdisk = <<>>
    /\ torig = <<>>
    /\ tcalls = <<>>

Init ==
    /\ disk0 \in [Inodes -> InitTexts]
    /\ disk = disk0
    /\ linkTo \in LinkTargets
    /\ unreadable \in {{}} \cup {{d} : d \in Dirs \ {RootDir}}
    /\ pc = "walking"
    /\ files = {}
    /\ stack = <<RootDir>>
    /\ log = <<>>
    /\ TextIdle

\* os.walk yields the next directory: its files, and its subdirectories
\* before the directories still pending (top-down, depth first)
NextDir ==
    /\ pc = "walking"
    /\ files = {}
    /\ stack # <<>>
    /\ Head(stack) \notin unreadable
    /\ files' = FilesIn(Head(stack))
    /\ \E q \in Orders(SubDirs(Head(stack))) : stack' = q \o Tail(stack)
    /\ UNCHANGED <<disk, disk0, linkTo, unreadable, pc, log, varsText>>

\* os.walk cannot list the next directory: with no onerror given it ignores
\* the error and yields nothing for the directory and what is below it
SkipDir ==
    /\ pc = "walking"
    /\ files = {}
    /\ stack # <<>>
    /\ Head(stack) \in unreadable
    /\ stack' = Tail(stack)
    /\ UNCHANGED <<disk, disk0, linkTo, unreadable, pc, files, log, varsText>>

\* lines 40-41: the file is in EXCLUDE_FILES
SkipExcluded(e) ==
    /\ pc = "walking"
    /\ e \in files
    /\ Excluded(e)
    /\ files' = files \ {e}
    /\ UNCHANGED <<disk, disk0, linkTo, unreadable, pc, stack, log, varsText>>

\* line 42: the name ends in none of FILE_EXTS
SkipExtension(e) ==
    /\ pc = "walking"
    /\ e \in files
    /\ ~Excluded(e)
    /\ ~HasExt(e)
    /\ files' = files \ {e}
    /\ UNCHANGED <<disk, disk0, linkTo, unreadable, pc, stack, log, varsText>>

\* line 43 and write_in_file, lines 20-33, every step succeeding
WriteInFile(e) ==
    /\ pc = "walking"
    /\ e \in files
    /\ ~Excluded(e)
    /\ HasExt(e)
    /\ LET original == disk[InodeOf(e)]
           content == ChainOf[original]
       IN IF NeedsWrite(original, content)
          THEN /\ disk' = [disk EXCEPT ![InodeOf(e)] = content]
               /\ log' = Append(log, [entry |-> e, before |-> original,
                                      events |-> <<"read", "write", "print">>])
          ELSE /\ disk' = disk
               /\ log' = Append(log, [entry |-> e, before |-> original,
                                      events |-> <<"read">>])
    /\ files' = files \ {e}
    /\ UNCHANGED <<disk0, linkTo, unreadable, pc, stack, varsText>>

\* lines 21-22 raise: the file cannot be opened or read, or is not UTF-8
ReadFails(e) ==
    /\ pc = "walking"
    /\ e \in files
    /\ ~Excluded(e)
    /\ HasExt(e)
    /\ log' = Append(log, [entry |-> e, before |-> disk[InodeOf(e)],
                           events |-> <<"readfail">>])
    /\ pc' = AfterRaise
    /\ files' = files \ {e}
    /\ UNCHANGED <<disk, disk0, linkTo, unreadable, stack, varsText>>

\* line 31 raises: the file cannot be opened for writing; it is not truncated
WriteOpenFails(e) ==
    /\ pc = "walking"
    /\ e \in files
    /\ ~Excluded(e)
    /\ HasExt(e)
    /\ NeedsWrite(disk[InodeOf(e)], ChainOf[disk[InodeOf(e)]])
    /\ log' = Append(log, [entry |-> e, before |-> disk[InodeOf(e)],
                           events |-> <<"read", "writefail">>])
    /\ pc' = AfterRaise
    /\ files' = files \ {e}
    /\ UNCHANGED <<disk, disk0, linkTo, unreadable, stack, varsText>>

\* line 32 (or the close of line 31's with) raises after open() truncated
\* the file: part of the new text, or nothing, is on disk
WriteFails(e) ==
    /\ pc = "walking"
    /\ e \in files
    /\ ~Excluded(e)
    /\ HasExt(e)
    /\ NeedsWrite(disk[InodeOf(e)], ChainOf[disk[InodeOf(e)]])
    /\ \E part \in PartialWrites(ChainOf[disk[InodeOf(e)]]) :
          disk' = [disk EXCEPT ![InodeOf(e)] = part]
    /\ log' = Append(log, [entry |-> e, before |-> disk[InodeOf(e)],
                           events |-> <<"read", "writefail">>])
    /\ pc' = AfterRaise
    /\ files' = files \ {e}
    /\ UNCHANGED <<disk0, linkTo, unreadable, stack, varsText>>

\* os.walk is exhausted: parse_repo returns
Finish ==
    /\ pc = "walking"
    /\ files = {}
    /\ stack = <<>>
    /\ pc' = "done"
    /\ UNCHANGED <<disk, disk0, linkTo, unreadable, files, stack, log, varsText>>

Next ==
    \/ NextDir
    \/ SkipDir
    \/ \E e \in Tree : SkipExcluded(e)
    \/ \E e \in Tree : SkipExtension(e)
    \/ \E e \in Tree : WriteInFile(e)
    \/ \E e \in Tree : ReadFails(e)
    \/ \E e \in Tree : WriteOpenFails(e)
    \/ \E e \in Tree : WriteFails(e)
    \/ Finish

Spec == Init /\ [][Next]_vars

----------------------------------------------------------------------------
(* Vocabulary of the claims about the text *)

\* the literal word w occurs in t at index i
OccursAt(w, t, i) ==
    /\ i >= 1
    /\ i + Len(w) - 1 <= Len(t)
    /\ SubSeq(t, i, i + Len(w) - 1) = w

Positions(w, t) == {i \in 1..Len(t) : OccursAt(w, t, i)}

LnOS == <<"L", "n", "O", "S">>
lnos == <<"l", "n", "o", "s">>
DotGit == <<".", "g", "i", "t">>

\* "LnOS" at index i with no letter, digit or underscore on either side
WholeWordAt(t, i) ==
    /\ OccursAt(LnOS, t, i)
    /\ ~(i > 1 /\ t[i - 1] \in WordChars)
    /\ ~(i + 4 <= Len(t) /\ t[i + 4] \in WordChars)

\* "cd" at index i, not preceded by a word character, then one or more
\* whitespace characters, then the whole word "LnOS": the index after it, or 0
CdEnd(t, i) ==
    IF /\ OccursAt(<<"c", "d">>, t, i)
       /\ ~(i > 1 /\ t[i - 1] \in WordChars)
       /\ SpaceRun(t, i + 2) >= 1
       /\ WholeWordAt(t, i + 2 + SpaceRun(t, i + 2))
    THEN i + 2 + SpaceRun(t, i + 2) + 4
    ELSE 0

\* none of the four trigger patterns, as the specification describes them
TriggerFree(t) ==
    /\ Positions(URL_FROM \o DotGit, t) = {}
    /\ Positions(URL_FROM, t) = {}
    /\ \A i \in 1..Len(t) : CdEnd(t, i) = 0
    /\ \A i \in 1..Len(t) : ~WholeWordAt(t, i)

\* where the character at index i of t, the first of a URL, lands in Chain(t)
PosMap(t, i) == Len(Chain(SubSeq(t, 1, i)))

\* SpecText has called write_in_file on the file at least once
Ran == Len(tcalls) >= 1

\* the first call of SpecText has just finished: tdisk is its result
RanOnce == Len(tcalls) = 1

----------------------------------------------------------------------------
(* Claims about the substitution chain, checked under SpecText *)

\* C2 (as claimed): a file whose text holds none of the four trigger
\* patterns, as the specification describes them, is identical after the
\* call, and the call neither writes nor prints.
C2_UntriggeredUntouched ==
    (RanOnce /\ TriggerFree(torig)) =>
        /\ tdisk = torig
        /\ ~tcalls[1].wrote
        /\ ~tcalls[1].printed

\* C5: the chain is idempotent: applying it to its own output returns that
\* output, so every later call on the file neither writes nor prints; and
\* every old URL followed by ".git" has become the new URL followed by
\* ".git", none being left.
C5_Idempotent ==
    Ran =>
        /\ Chain(tdisk) = tdisk
        /\ \A k \in 2..Len(tcalls) : ~tcalls[k].wrote /\ ~tcalls[k].printed
        /\ Positions(URL_FROM \o DotGit, tdisk) = {}
        /\ \A i \in Positions(URL_FROM \o DotGit, torig) :
               OccursAt(URL_TO \o DotGit, tdisk, PosMap(torig, i))

C5_Witness ==
    /\ Len(tcalls) = MaxRuns
    /\ tcalls[1].wrote
    /\ Positions(URL_FROM \o DotGit, torig) # {}

\* C6: after the call the text holds no occurrence of the old URL, and the
\* new URL stands where each old URL stood, whatever follows it.
C6_OldUrlGone ==
    RanOnce =>
        /\ Positions(URL_FROM, tdisk) = {}
        /\ \A i \in Positions(URL_FROM, torig) :
               OccursAt(URL_TO, tdisk, PosMap(torig, i))

C6_Witness ==
    /\ RanOnce
    /\ \E i \in Positions(URL_FROM, torig) :
          /\ ~OccursAt(DotGit, torig, i + Len(URL_FROM))
          /\ i + Len(URL_FROM) <= Len(torig)
          /\ i > 1

\* the indices at which "LnOS" or "lnos" starts in t
NameStarts(t) == {i \in 1..Len(t) : OccursAt(LnOS, t, i) \/ OccursAt(lnos, t, i)}

\* the occurrences of "LnOS" and "lnos" in t, in order, each as the index it
\* starts at
Names(t) ==
    LET S == NameStarts(t) IN
    [k \in 1..Cardinality(S) |->
        CHOOSE x \in S : Cardinality({y \in S : y < x}) = k - 1]

\* "LnOS" at index i is the end of a match of the URL pattern of line 26
UrlTailAt(t, i) ==
    /\ i > Len(URL_FROM) - 4
    /\ MatchFrom(URL_FROM, 1, t, i - (Len(URL_FROM) - 4)) # 0

\* "LnOS" at index i with a letter, digit or underscore next to it
EmbeddedAt(t, i) == OccursAt(LnOS, t, i) /\ ~WholeWordAt(t, i)

\* C7 (as claimed): the k-th occurrence of the name in the input is the k-th
\* in the output; a whole-word "LnOS" has become "lnos", and an "LnOS"
\* embedded in a larger word is still "LnOS".
C7_EmbeddedUntouched ==
    RanOnce =>
        LET in == Names(torig)
            out == Names(tdisk)
        IN /\ Len(out) = Len(in)
           /\ \A k \in 1..Len(in) :
                 /\ WholeWordAt(torig, in[k]) => OccursAt(lnos, tdisk, out[k])
                 /\ EmbeddedAt(torig, in[k]) => OccursAt(LnOS, tdisk, out[k])

\* C7 (amended): as above, but an embedded "LnOS" is still "LnOS" only when
\* it is not the end of a match of the URL pattern; when it is, it has
\* become the "lnos" of the new URL.
C7_EmbeddedOutsideUrl ==
    RanOnce =>
        LET in == Names(torig)
            out == Names(tdisk)
        IN /\ Len(out) = Len(in)
           /\ \A k \in 1..Len(in) :
                 /\ WholeWordAt(torig, in[k]) => OccursAt(lnos, tdisk, out[k])
                 /\ (EmbeddedAt(torig, in[k]) /\ ~UrlTailAt(torig, in[k]))
                       => OccursAt(LnOS, tdisk, out[k])
                 /\ (EmbeddedAt(torig, in[k]) /\ UrlTailAt(torig, in[k]))
                       => OccursAt(lnos, tdisk, out[k])

C7_Witness ==
    /\ RanOnce
    /\ \E i, j \in 1..Len(torig) :
          /\ WholeWordAt(torig, i)
          /\ EmbeddedAt(torig, j) /\ ~UrlTailAt(torig, j)

\* the index after the rule match that starts at index j of t, 0 when none
\* does: a match of the URL pattern, "cd" + whitespace + whole-word "LnOS",
\* or a whole-word "LnOS"
RuleEnd(t, j) ==
    IF MatchFrom(URL_FROM, 1, t, j) # 0 THEN MatchFrom(URL_FROM, 1, t, j)
    ELSE IF CdEnd(t, j) # 0 THEN CdEnd(t, j)
    ELSE IF WholeWordAt(t, j) THEN j + 4
    ELSE 0

\* what stands for the rule match that starts at index j of t
RuleText(t, j) ==
    IF MatchFrom(URL_FROM, 1, t, j) # 0 THEN URL_TO
    ELSE IF CdEnd(t, j) # 0 THEN <<"c", "d", " ", "l", "n", "o", "s">>
    ELSE lnos

RECURSIVE OnePassFrom(_, _)
\* t from index i on with every rule match replaced in a single pass, left
\* to right, and every other character copied
OnePassFrom(t, i) ==
    LET starts == {j \in i..Len(t) : RuleEnd(t, j) # 0} IN
    IF starts = {} THEN SubSeq(t, i, Len(t))
    ELSE LET j == CHOOSE x \in starts : \A y \in starts : x <= y
         IN SubSeq(t, i, j - 1) \o RuleText(t, j) \o OnePassFrom(t, RuleEnd(t, j))

\* C8: every "cd" + whitespace + whole-word "LnOS" has become exactly
\* "cd lnos", and every character outside a rule match is unchanged and in
\* its place: the result is the input with the rule matches replaced.
C8_CdRule ==
    RanOnce => tdisk = OnePassFrom(torig, 1)

C8_Witness ==
    /\ RanOnce
    /\ \E i \in 1..Len(torig) :
          /\ CdEnd(torig, i) # 0
          /\ SpaceRun(torig, i + 2) >= 2

\* the chain with the two URL rules exchanged: line 26 before line 25
ChainSwapped(content) == Rule4(Rule3(Rule1(Rule2(content))))

\* C9 (as claimed): some text that holds the old URL followed by ".git"
\* gives a different result when the bare-URL rule runs first.
C9_OrderMatters ==
    (RanOnce /\ Positions(URL_FROM \o DotGit, torig) # {}) =>
        \E t \in Texts :
            /\ Positions(URL_FROM \o DotGit, t) # {}
            /\ ChainSwapped(t) # Chain(t)

\* C9 (amended): running the bare-URL rule first gives the same result as
\* the fixed order, for every text.
C9_OrderIrrelevant ==
    RanOnce => tdisk = ChainSwapped(torig)

C9_Witness ==
    /\ RanOnce
    /\ Positions(URL_FROM \o DotGit, torig) # {}
    /\ tdisk # torig

----------------------------------------------------------------------------
(* Claims about write_in_file's effects and about the walk, under Spec *)

\* how many times event ev occurs in the call record r
CountEvent(r, ev) == Cardinality({i \in 1..Len(r.events) : r.events[i] = ev})

Wrote(r) == CountEvent(r, "write") = 1

\* the call raised: its read, or its write, failed
Failed(r) == r.events[Len(r.events)] \in {"readfail", "writefail"}

\* the extensions and the excluded path, as the specification lists them
SpecRecognized(e) ==
    e.name[Len(e.name)] \in {".md", ".sh", ".txt", ".yml", ".yaml"}

SpecExcludedPath == <<".github", "/", "workflows", "/", "ci-main", ".yml">>

\* the calls of write_in_file on entry e so far
Calls(e) == Cardinality({k \in 1..Len(log) : log[k].entry = e})

\* C1 (as claimed): every call that read its file wrote it, and then printed
\* one message, if and only if the substituted text differs from the text
\* read; otherwise it neither wrote nor printed.
C1_WriteIffChanged ==
    \A k \in 1..Len(log) :
        log[k].events[1] = "read" =>
            IF ChainOf[log[k].before] # log[k].before
            THEN log[k].events = <<"read", "write", "print">>
            ELSE log[k].events = <<"read">>

\* C1 (amended): the same of every call that returned without raising; and
\* every call, raising or not, wrote at most once and printed at most once,
\* and printed only right after its write. A written file holds the
\* substituted text.
C1_WriteIffChangedUnlessRaised ==
    \A k \in 1..Len(log) :
        LET r == log[k] IN
        /\ ~Failed(r) =>
              IF ChainOf[r.before] # r.before
              THEN /\ r.events = <<"read", "write", "print">>
                   /\ disk[InodeOf(r.entry)] = ChainOf[r.before]
              ELSE r.events = <<"read">>
        /\ CountEvent(r, "write") <= 1
        /\ CountEvent(r, "print") <= 1
        /\ \A i \in 1..Len(r.events) :
              r.events[i] = "print" => (i > 1 /\ r.events[i - 1] = "write")

C1_Witness ==
    /\ pc = "done"
    /\ \E j, k \in 1..Len(log) :
          /\ log[j].events = <<"read", "write", "print">>
          /\ log[k].events = <<"read">>

\* C3 (as claimed): after a complete run the file at the excluded path and
\* every file whose name ends in no recognised extension have the content
\* they had before the run.
C3_ProtectedUntouched ==
    pc = "done" =>
        \A e \in Tree :
            (RelPath(FilePath(e)) = SpecExcludedPath \/ ~SpecRecognized(e))
                => disk[InodeOf(e)] = disk0[InodeOf(e)]

\* a recognised extension, and a normalised relative path that is not the
\* excluded one
Included(e) ==
    /\ SpecRecognized(e)
    /\ ReplaceBackslash(RelPath(FilePath(e))) # SpecExcludedPath

\* C4 (as claimed): write_in_file is never called for a path that is not
\* included and never twice for the same path; when the run completes, which
\* it does if no call raised, it has been called
\* exactly once for every included path; and in a run without error every
\* call recorded has finished (read, then write and print, or read alone)
\* before the walk goes on.
C4_OncePerIncludedFile ==
    /\ \A e \in Tree : Calls(e) <= 1 /\ (Calls(e) = 1 => Included(e))
    /\ pc = "done" => \A e \in Tree : Included(e) => Calls(e) = 1
    /\ pc # "aborted" =>
          \A k \in 1..Len(log) :
              log[k].events \in {<<"read">>, <<"read", "write", "print">>}

\* what holds in every state of a run in which a read or a write failed
C10_State ==
    /\ \A k \in 1..Len(log) : Failed(log[k]) => (k = Len(log) /\ pc = "aborted")
    /\ pc = "aborted" => (Len(log) >= 1 /\ Failed(log[Len(log)]))
    /\ \A k \in 1..Len(log) :
          LET r == log[k] IN
          /\ Failed(r) => CountEvent(r, "print") = 0
          /\ Wrote(r) => disk[InodeOf(r.entry)] = ChainOf[r.before]
          /\ r.events = <<"readfail">> => disk[InodeOf(r.entry)] = r.before

\* C10: a failed read or write is the last thing the run does: the failing
\* call is the last call, nothing is read, written or printed after it and
\* it is not retried; the files written before it hold their rewritten
\* text; a file whose read failed holds its original text and was not
\* announced.
C10_AbortsAtFirstFailure ==
    /\ []C10_State
    /\ [][pc # "aborted"]_vars

C10_Witness ==
    /\ pc = "aborted"
    /\ Len(log) >= 2
    /\ Wrote(log[1])
    /\ files # {}
    /\ stack # <<>>

====
